---- MODULE Spec2Model ----
(***************************************************************************)
(* Template service of backend/app/template_routes.py: the templates       *)
(* collection of MongoDB, the four request handlers that read and write    *)
(* it (list_templates, get_template, create_template, update_template),    *)
(* and the override-over-default resolution they implement; and the        *)
(* releases collection with the handlers of backend/app/release_routes.py  *)
(* (create_release, get_latest_release).                                   *)
(*                                                                         *)
(* A handler is a coroutine: it runs without interruption up to each       *)
(* `await` of a store operation, and handlers of other requests run        *)
(* between its store operations.  Each action below is one such segment,   *)
(* ending with the store operation it awaits.                              *)
(*                                                                         *)
(* A template document carries template_id, client_id, name, is_active,    *)
(* created_at and updated_at.  The fields description, sections,           *)
(* global_instruction, clinical_safety_rules and version are copied        *)
(* through by every handler exactly as name is, and are left out.          *)
(***************************************************************************)
EXTENDS Integers, Sequences, FiniteSets, TLC

\* ------------------------------------------------------------------ bounds
MaxReqs == 3       \* at most this many requests are accepted

\* ------------------------------------------------------------ value spaces
Procs       == {1, 2}                  \* request handlers running concurrently
DEFAULT     == "default"               \* the sentinel client_id
TemplateIds == {"T1", "T2"}
ClientIds   == {DEFAULT, "c1"}
\* names are strings, modelled as sequences of code points: "b" and "ab"
Names       == {<<2>>, <<1, 2>>}

VARIABLES
    store,      \* the templates collection: a set of documents
    indexed,    \* TRUE once the unique index on (template_id, client_id) exists
    nextId,     \* the next _id the store assigns
    now,        \* the last value datetime.utcnow() returned
    pc,         \* per handler: the store operation it is about to await
    req,        \* per handler: the template_id / client_id of a pending read
    stamp,      \* per handler: update_data["updated_at"] of a pending update
    defaults,   \* per handler: the `defaults` dict of a pending list
    served,     \* the number of requests accepted so far
    resp,       \* the HTTP response the last step sent, if it sent one, with
                \* the template_id / client_id of the request it answers
    releases,   \* the releases collection: a set of documents
    rindexed,   \* TRUE once the unique index on version exists
    release,    \* per handler: the body of a pending create_release
    touched     \* per handler (history): the _ids of the documents its
                \* pending create_release has written

vars == <<store, indexed, nextId, now, pc, req, stamp, defaults, served, resp,
          releases, rindexed, release, touched>>

\* the state of the release handlers, which the template handlers leave alone
rvars == <<releases, rindexed, release, touched>>

\* no create_release body pending
NoRelease == [version |-> <<>>, is_latest |-> FALSE, release_date |-> 0,
              created_at |-> 0]

NoReq   == [template_id |-> "-", client_id |-> "-"]
NoResp  == [op |-> "none", to |-> NoReq, status |-> 0, detail |-> <<>>, body |-> <<>>]

\* ----------------------------------------------------------------- models

\* the created_at / updated_at a request body carries: a date the client
\* sent, or the one default_factory filled in before the handler ran
BodyTimes == {0}

\* TemplateModel as a request body
Bodies ==
    { [template_id |-> t, client_id |-> c, name |-> n, is_active |-> a,
       created_at |-> ts, updated_at |-> ts] :
         t \in TemplateIds, c \in ClientIds, n \in Names, a \in BOOLEAN,
         ts \in BodyTimes }

\* template.model_dump(): the body as a dict, field for field
model_dump(template) == template

\* _doc_to_model: the document without its _id
_doc_to_model(doc) ==
    [template_id |-> doc.template_id, client_id |-> doc.client_id,
     name |-> doc.name, is_active |-> doc.is_active,
     created_at |-> doc.created_at, updated_at |-> doc.updated_at]

\* ------------------------------------------------------ the document store

SameKey(d, e) == d.template_id = e.template_id /\ d.client_id = e.client_id

\* faulty variant of FindOneActive: the query leaves out is_active
FindOneAnyActivity(S, t, c) ==
    {d \in S : d.template_id = t /\ d.client_id = c}

\* collection.find_one({"template_id": t, "client_id": c, "is_active": True}):
\* the documents the query may return (any one of the matching documents)
FindOneActive(S, t, c) ==
    {d \in S : d.template_id = t /\ d.client_id = c /\ d.is_active}

\* collection.find({"client_id": c, "is_active": True}): the matching documents
FindActive(S, c) == {d \in S : d.client_id = c /\ d.is_active}

\* the orders in which a cursor may deliver a set of documents
CursorOrders(D) ==
    {s \in [1..Cardinality(D) -> D] : \A i, j \in DOMAIN s : s[i] = s[j] => i = j}

\* the documents update_template's filter matches
FindForUpdate(S, t, c) == {d \in S : d.template_id = t /\ d.client_id = c}

\* would storing document d violate the unique index over S?
DuplicateKey(S, d) == indexed /\ \E e \in S : e.id # d.id /\ SameKey(e, d)

\* ------------------------------------------------------------ responses

\* the template_id / client_id a request addresses
To(t, c) == [template_id |-> t, client_id |-> c]

\* HTTPException(status_code=503, ...)
Http503(op) ==
    [op |-> op, to |-> NoReq, status |-> 503, detail |-> <<>>, body |-> <<>>]

\* HTTPException(status_code=404 or 409, detail=...): detail lists the
\* identifiers the message names
HttpError(op, to, st, detail) ==
    [op |-> op, to |-> to, status |-> st, detail |-> detail, body |-> <<>>]

\* the handler's return value
HttpOk(op, to, st, b) ==
    [op |-> op, to |-> to, status |-> st, detail |-> <<>>, body |-> b]

\* ----------------------------------------------- the dict and the name sort

\* faulty variant of DictSet: the overrides are added to a list of the
\* defaults instead of replacing them by key
DictSetAppending(d, doc) == Append(d, doc)

\* defaults[doc["template_id"]] = doc on a dict kept as the sequence of its
\* values in insertion order: an existing key keeps its place, a new key is
\* appended
DictSet(d, doc) ==
    IF \E i \in DOMAIN d : d[i].template_id = doc.template_id
    THEN [i \in DOMAIN d |->
            IF d[i].template_id = doc.template_id THEN doc ELSE d[i]]
    ELSE Append(d, doc)

\* the dict after assigning the documents of a cursor, in cursor order
RECURSIVE DictUpdate(_, _)
DictUpdate(d, docs) ==
    IF docs = <<>> THEN d
    ELSE DictUpdate(DictSet(d, Head(docs)), Tail(docs))

\* Python's str <, on sequences of code points
RECURSIVE StrLess(_, _)
StrLess(a, b) ==
    IF b = <<>> THEN FALSE
    ELSE IF a = <<>> THEN TRUE
    ELSE IF Head(a) # Head(b) THEN Head(a) < Head(b)
    ELSE StrLess(Tail(a), Tail(b))

\* x put into the sorted sequence s after every element whose name is not
\* greater (the sort is stable)
RECURSIVE SortedInsert(_, _)
SortedInsert(s, x) ==
    IF s = <<>> THEN <<x>>
    ELSE IF StrLess(x.name, Head(s).name) THEN <<x>> \o s
    ELSE <<Head(s)>> \o SortedInsert(Tail(s), x)

\* templates.sort(key=lambda t: t.name)
RECURSIVE SortByName(_)
SortByName(s) ==
    IF s = <<>> THEN <<>>
    ELSE SortedInsert(SortByName(SubSeq(s, 1, Len(s) - 1)), s[Len(s)])

\* [_doc_to_model(doc) for doc in defaults.values()], sorted, in the response
ListResponse(client_id, d) ==
    HttpOk("list", To("-", client_id), 200,
           SortByName([i \in DOMAIN d |-> _doc_to_model(d[i])]))

\* ------------------------------------------------------------------- Init

Init ==
    /\ store = {}
    /\ indexed = FALSE
    /\ nextId = 1
    /\ now = 0
    /\ pc = [p \in Procs |-> "idle"]
    /\ req = [p \in Procs |-> NoReq]
    /\ stamp = [p \in Procs |-> 0]
    /\ defaults = [p \in Procs |-> <<>>]
    /\ served = 0
    /\ resp = NoResp
    /\ releases = {}
    /\ rindexed = FALSE
    /\ release = [p \in Procs |-> NoRelease]
    /\ touched = [p \in Procs |-> {}]

\* datetime.utcnow() when the clock last read t.  Successive readings are
\* taken to be distinct and increasing, the case most favourable to what
\* is claimed about the order of timestamps.
UtcNow(t) == t + 1

\* a request is accepted and its handler starts; of the idle handlers,
\* which are interchangeable, the first takes it
Accept(p) ==
    /\ pc[p] = "idle"
    /\ \A q \in Procs : q < p => pc[q] # "idle"
    /\ served < MaxReqs
    /\ served' = served + 1

\* a handler that was waiting for the store goes on
Resume(p, label) == pc[p] = label /\ served' = served

\* the handler returns or raises: the response goes out and its locals die
Respond(p, r) ==
    /\ resp' = r
    /\ pc' = [pc EXCEPT ![p] = "idle"]
    /\ req' = [req EXCEPT ![p] = NoReq]
    /\ stamp' = [stamp EXCEPT ![p] = 0]
    /\ defaults' = [defaults EXCEPT ![p] = <<>>]

\* the handler goes on to await its next store operation
Await(p, label) == pc' = [pc EXCEPT ![p] = label] /\ resp' = NoResp

\* ----------------------------------------------------------- list_templates

\* list_templates up to the end of the default-layer query
ListDefaults(p, client_id) ==
    /\ Accept(p)
    /\ UNCHANGED rvars
    /\ UNCHANGED <<store, indexed, nextId, now>>
    /\ \E cur \in CursorOrders(FindActive(store, DEFAULT)) :
          LET d == DictUpdate(<<>>, cur) IN
          IF client_id # DEFAULT
          THEN /\ Await(p, "list_client")
               /\ req' = [req EXCEPT ![p] = To("-", client_id)]
               /\ defaults' = [defaults EXCEPT ![p] = d]
               /\ stamp' = stamp
          ELSE Respond(p, ListResponse(client_id, d))

\* list_templates from the override-layer query to the return
ListClient(p) ==
    /\ Resume(p, "list_client")
    /\ UNCHANGED rvars
    /\ UNCHANGED <<store, indexed, nextId, now>>
    /\ \E cur \in CursorOrders(FindActive(store, req[p].client_id)) :
          Respond(p, ListResponse(req[p].client_id, DictUpdate(defaults[p], cur)))

\* ------------------------------------------------------------- get_template

\* faulty variant of DefaultLookup: the fall-back query leaves out is_active
DefaultLookupAnyActivity(S, template_id, client_id) ==
    IF FindForUpdate(S, template_id, DEFAULT) # {}
    THEN {HttpOk("get", To(template_id, client_id), 200, _doc_to_model(doc)) :
             doc \in FindForUpdate(S, template_id, DEFAULT)}
    ELSE {HttpError("get", To(template_id, client_id), 404, <<template_id>>)}

\* the fall-back lookup of the default layer and what get_template answers
DefaultLookup(S, template_id, client_id) ==
    IF FindOneActive(S, template_id, DEFAULT) # {}
    THEN {HttpOk("get", To(template_id, client_id), 200, _doc_to_model(doc)) :
             doc \in FindOneActive(S, template_id, DEFAULT)}
    ELSE {HttpError("get", To(template_id, client_id), 404, <<template_id>>)}

\* faulty variant of GetTemplate: the default is looked up first and the
\* client's document only when there is no default
GetTemplateDefaultFirst(p, template_id, client_id) ==
    /\ Accept(p)
    /\ UNCHANGED rvars
    /\ UNCHANGED <<store, indexed, nextId, now>>
    /\ IF FindOneActive(store, template_id, DEFAULT) # {}
       THEN \E doc \in FindOneActive(store, template_id, DEFAULT) :
               Respond(p, HttpOk("get", To(template_id, client_id), 200,
                                 _doc_to_model(doc)))
       ELSE IF FindOneActive(store, template_id, client_id) # {}
       THEN \E doc \in FindOneActive(store, template_id, client_id) :
               Respond(p, HttpOk("get", To(template_id, client_id), 200,
                                 _doc_to_model(doc)))
       ELSE Respond(p, HttpError("get", To(template_id, client_id), 404,
                                 <<template_id>>))

\* get_template up to the end of its first store operation
GetTemplate(p, template_id, client_id) ==
    /\ Accept(p)
    /\ UNCHANGED rvars
    /\ UNCHANGED <<store, indexed, nextId, now>>
    /\ IF client_id # DEFAULT
       THEN IF FindOneActive(store, template_id, client_id) # {}
            THEN \E doc \in FindOneActive(store, template_id, client_id) :
                    Respond(p, HttpOk("get", To(template_id, client_id), 200,
                                      _doc_to_model(doc)))
            ELSE /\ Await(p, "get_default")
                 /\ req' = [req EXCEPT ![p] = To(template_id, client_id)]
                 /\ UNCHANGED <<stamp, defaults>>
       ELSE \E r \in DefaultLookup(store, template_id, client_id) : Respond(p, r)

\* get_template from the fall-back lookup to the return
GetDefault(p) ==
    /\ Resume(p, "get_default")
    /\ UNCHANGED rvars
    /\ UNCHANGED <<store, indexed, nextId, now>>
    /\ \E r \in DefaultLookup(store, req[p].template_id, req[p].client_id) :
          Respond(p, r)

\* get_template against one state of the store: the responses it may give
ResolveOne(S, template_id, client_id) ==
    IF client_id # DEFAULT /\ FindOneActive(S, template_id, client_id) # {}
    THEN {HttpOk("get", To(template_id, client_id), 200, _doc_to_model(doc)) :
             doc \in FindOneActive(S, template_id, client_id)}
    ELSE DefaultLookup(S, template_id, client_id)

\* ---------------------------------------------------------- create_template

\* _ensure_indexes: the unique index on (template_id, client_id); building it
\* fails with a duplicate key error when the collection already holds two
\* documents with one key
EnsureIndexes(S) == ~ \E d, e \in S : d.id # e.id /\ SameKey(d, e)

\* faulty variant of CreateTemplate: _ensure_indexes is not called
CreateTemplateNoIndex(p) ==
    /\ Accept(p)
    /\ UNCHANGED rvars
    /\ UNCHANGED <<store, nextId, now, indexed, req, stamp, defaults>>
    /\ Await(p, "create_insert")

\* create_template up to the end of `await _ensure_indexes()`; the
\* duplicate key error of a failed index build is answered as a conflict
CreateTemplate(p) ==
    /\ Accept(p)
    /\ UNCHANGED rvars
    /\ UNCHANGED <<store, nextId, now>>
    /\ IF EnsureIndexes(store)
       THEN /\ indexed' = TRUE
            /\ Await(p, "create_insert")
            /\ UNCHANGED <<req, stamp, defaults>>
       ELSE /\ indexed' = indexed
            /\ \E template \in Bodies :
                  Respond(p, HttpError("create",
                                To(template.template_id, template.client_id), 409,
                                <<template.template_id, template.client_id>>))

\* the document create_template hands to insert_one
CreateDoc(template, t1, t2) ==
    [model_dump(template) EXCEPT !.created_at = t1, !.updated_at = t2]

\* the record create_template returns after a successful insert
CreateReturn(template, doc) == template

\* faulty variant of InsertOne: a document of the same identity is replaced
InsertOneOverwriting(S, doc) ==
    {e \in S : ~SameKey(e, doc)} \cup {doc}

\* insert_one(doc): the collection afterwards (unchanged on a duplicate key)
InsertOne(S, doc) ==
    IF indexed /\ \E e \in S : SameKey(e, doc) THEN S ELSE S \cup {doc}

\* create_template from the stamping of the document to the return
CreateInsert(p, template) ==
    /\ Resume(p, "create_insert")
    /\ UNCHANGED rvars
    /\ indexed' = indexed
    /\ LET t1   == UtcNow(now)
           t2   == UtcNow(t1)
           doc  == CreateDoc(template, t1, t2)
           sdoc == [id |-> nextId, template_id |-> doc.template_id,
                    client_id |-> doc.client_id, name |-> doc.name,
                    is_active |-> doc.is_active, created_at |-> doc.created_at,
                    updated_at |-> doc.updated_at]
           to   == To(template.template_id, template.client_id)
       IN /\ now' = t2
          /\ IF InsertOne(store, sdoc) = store
             THEN /\ UNCHANGED <<store, nextId>>
                  /\ Respond(p, HttpError("create", to, 409,
                                <<template.template_id, template.client_id>>))
             ELSE /\ store' = InsertOne(store, sdoc)
                  /\ nextId' = nextId + 1
                  /\ Respond(p, HttpOk("create", to, 201, CreateReturn(template, doc)))

\* ---------------------------------------------------------- update_template

\* update_template up to the call of find_one_and_update: update_data is the
\* body with updated_at stamped and created_at removed
UpdateTemplate(p) ==
    /\ Accept(p)
    /\ UNCHANGED rvars
    /\ UNCHANGED <<store, indexed, nextId, req, defaults>>
    /\ Await(p, "update_apply")
    /\ now' = UtcNow(now)
    /\ stamp' = [stamp EXCEPT ![p] = UtcNow(now)]

\* faulty variant of SetUpdate: created_at is left in update_data
SetUpdateWithCreatedAt(doc, template, updated_at) ==
    [doc EXCEPT !.template_id = template.template_id,
                !.client_id = template.client_id,
                !.name = template.name,
                !.is_active = template.is_active,
                !.created_at = template.created_at,
                !.updated_at = updated_at]

\* {"$set": update_data} applied to the matched document
SetUpdate(doc, template, updated_at) ==
    [doc EXCEPT !.template_id = template.template_id,
                !.client_id = template.client_id,
                !.name = template.name,
                !.is_active = template.is_active,
                !.updated_at = updated_at]

\* faulty variant of UpdateApply: find_one_and_update is called with
\* upsert=True, so a missing document is created
UpdateApplyUpserting(p, template_id, template) ==
    /\ Resume(p, "update_apply")
    /\ UNCHANGED rvars
    /\ UNCHANGED <<indexed, now>>
    /\ LET to == To(template_id, template.client_id) IN
       IF FindForUpdate(store, template_id, template.client_id) = {}
       THEN LET result == [id |-> nextId, template_id |-> template.template_id,
                           client_id |-> template.client_id, name |-> template.name,
                           is_active |-> template.is_active,
                           created_at |-> stamp[p], updated_at |-> stamp[p]]
            IN /\ store' = store \cup {result}
               /\ nextId' = nextId + 1
               /\ Respond(p, HttpOk("update", to, 200, _doc_to_model(result)))
       ELSE \E doc \in FindForUpdate(store, template_id, template.client_id) :
              LET result == SetUpdate(doc, template, stamp[p]) IN
              /\ store' = (store \ {doc}) \cup {result}
              /\ nextId' = nextId
              /\ Respond(p, HttpOk("update", to, 200, _doc_to_model(result)))

\* update_template from find_one_and_update to the return
UpdateApply(p, template_id, template) ==
    /\ Resume(p, "update_apply")
    /\ UNCHANGED rvars
    /\ UNCHANGED <<indexed, nextId, now>>
    /\ LET to == To(template_id, template.client_id) IN
       IF FindForUpdate(store, template_id, template.client_id) = {}
       THEN /\ store' = store
            /\ Respond(p, HttpError("update", to, 404,
                          <<template_id, template.client_id>>))
       ELSE \E doc \in FindForUpdate(store, template_id, template.client_id) :
              LET result == SetUpdate(doc, template, stamp[p]) IN
              IF DuplicateKey(store, result)
              THEN /\ store' = store
                   /\ Respond(p, Http503("update"))
              ELSE /\ store' = (store \ {doc}) \cup {result}
                   /\ Respond(p, HttpOk("update", to, 200, _doc_to_model(result)))

\* ------------------------------------------------------ store unreachable

\* the segments of each handler that end with a store operation
Segments(op) ==
    CASE op = "list"   -> {"idle", "list_client"}
      [] op = "get"    -> {"idle", "get_default"}
      [] op = "create" -> {"idle", "create_insert"}
      [] op = "update" -> {"update_apply"}

\* faulty variant of StoreError: list_templates swallows a failure of the
\* override-layer query and returns the defaults it has read
StoreErrorSwallowedByList(p, op) ==
    /\ pc[p] \in Segments(op)
    /\ UNCHANGED rvars
    /\ IF pc[p] = "idle" THEN Accept(p) ELSE served' = served
    /\ now' = IF pc[p] = "create_insert" THEN UtcNow(UtcNow(now)) ELSE now
    /\ UNCHANGED <<store, indexed, nextId>>
    /\ IF pc[p] = "list_client"
       THEN Respond(p, ListResponse(req[p].client_id, defaults[p]))
       ELSE Respond(p, Http503(op))

\* the store operation a handler awaits raises because MongoDB cannot be
\* reached: the handler's `except Exception` answers 503.  The operation is
\* the first one of a request just accepted or the one a waiting handler is
\* at; create_template has read the clock before its insert_one.
StoreError(p, op) ==
    /\ pc[p] \in Segments(op)
    /\ UNCHANGED rvars
    /\ IF pc[p] = "idle" THEN Accept(p) ELSE served' = served
    /\ now' = IF pc[p] = "create_insert" THEN UtcNow(UtcNow(now)) ELSE now
    /\ UNCHANGED <<store, indexed, nextId>>
    /\ Respond(p, Http503(op))

\* ------------------------------------------------------------------- Next

Next ==
    \/ \E p \in Procs, c \in ClientIds : ListDefaults(p, c)
    \/ \E p \in Procs : ListClient(p)
    \/ \E p \in Procs, t \in TemplateIds, c \in ClientIds : GetTemplate(p, t, c)
    \/ \E p \in Procs : GetDefault(p)
    \/ \E p \in Procs : CreateTemplate(p)
    \/ \E p \in Procs, b \in Bodies : CreateInsert(p, b)
    \/ \E p \in Procs : UpdateTemplate(p)
    \/ \E p \in Procs, t \in TemplateIds, b \in Bodies : UpdateApply(p, t, b)
    \/ \E p \in Procs, op \in {"list", "get", "create", "update"} : StoreError(p, op)

Spec == Init /\ [][Next]_vars

\* ======================================================== release_routes.py

\* version strings of the form "0.2.1", as the numbers between the dots
Versions == {<<0, 2, 1>>, <<0, 3>>}

\* ReleaseModel as a request body.  download_url, release_notes, whats_new,
\* min_version and platform are copied through by every handler and are
\* left out.
ReleaseBodies ==
    { [version |-> v, is_latest |-> l, release_date |-> rd, created_at |-> ts] :
         v \in Versions, l \in BOOLEAN, rd \in {1, 2}, ts \in BodyTimes }

\* the document scripts/seed_release.py puts into the collection
SeedRelease ==
    [id |-> 0, version |-> <<0, 2, 1>>, is_latest |-> TRUE, release_date |-> 0,
     created_at |-> 0]

\* the releases service starts on an empty collection or on a seeded one,
\* whose unique index the seed script has built
ReleaseInit ==
    /\ store = {}
    /\ indexed = FALSE
    /\ nextId = 1
    /\ now = 0
    /\ pc = [p \in Procs |-> "idle"]
    /\ req = [p \in Procs |-> NoReq]
    /\ stamp = [p \in Procs |-> 0]
    /\ defaults = [p \in Procs |-> <<>>]
    /\ served = 0
    /\ resp = NoResp
    /\ releases \in {{}, {SeedRelease}}
    /\ rindexed = (releases # {})
    /\ release = [p \in Procs |-> NoRelease]
    /\ touched = [p \in Procs |-> {}]

\* release_routes._doc_to_model: the document without its _id
ReleaseDocToModel(doc) ==
    [version |-> doc.version, is_latest |-> doc.is_latest,
     release_date |-> doc.release_date, created_at |-> doc.created_at]

\* the release handler returns or raises: its locals die
ReleaseRespond(p, r) ==
    /\ Respond(p, r)
    /\ release' = [release EXCEPT ![p] = NoRelease]
    /\ touched' = [touched EXCEPT ![p] = {}]

\* release_routes._ensure_indexes: the unique index on version can be built
ReleaseEnsureIndexes(S) == ~ \E d, e \in S : d.id # e.id /\ d.version = e.version

\* create_release up to the end of `await _ensure_indexes()`.  The handler
\* goes on to update_many when the body is marked latest and to insert_one
\* otherwise.
CreateRelease(p, body) ==
    /\ Accept(p)
    /\ UNCHANGED <<store, indexed, nextId, now, releases, touched>>
    /\ IF ReleaseEnsureIndexes(releases)
       THEN /\ rindexed' = TRUE
            /\ release' = [release EXCEPT ![p] = body]
            /\ Await(p, IF body.is_latest THEN "release_unmark" ELSE "release_insert")
            /\ UNCHANGED <<req, stamp, defaults>>
       ELSE /\ rindexed' = rindexed
            /\ ReleaseRespond(p, HttpError("create_release", NoReq, 409,
                                           <<body.version>>))

\* update_many({"is_latest": True}, {"$set": {"is_latest": False}})
UpdateManyUnmark(S) == {[d EXCEPT !.is_latest = FALSE] : d \in S}

\* create_release: the update_many that unmarks the previous latest
ReleaseUnmark(p) ==
    /\ Resume(p, "release_unmark")
    /\ UNCHANGED <<store, indexed, nextId, now, rindexed, release>>
    /\ UNCHANGED <<req, stamp, defaults>>
    /\ releases' = UpdateManyUnmark(releases)
    /\ touched' = [touched EXCEPT
                     ![p] = @ \cup {d.id : d \in {e \in releases : e.is_latest}}]
    /\ Await(p, "release_insert")

\* create_release from the stamping of the document to the return
ReleaseInsert(p) ==
    /\ Resume(p, "release_insert")
    /\ UNCHANGED <<store, indexed, rindexed>>
    /\ LET doc == [id |-> nextId, version |-> release[p].version,
                   is_latest |-> release[p].is_latest,
                   release_date |-> release[p].release_date,
                   created_at |-> UtcNow(now)]
       IN /\ now' = UtcNow(now)
          /\ IF rindexed /\ \E e \in releases : e.version = doc.version
             THEN /\ UNCHANGED <<releases, nextId>>
                  /\ ReleaseRespond(p, HttpError("create_release", NoReq, 409,
                                                 <<release[p].version>>))
             ELSE /\ releases' = releases \cup {doc}
                  /\ nextId' = nextId + 1
                  /\ ReleaseRespond(p, HttpOk("create_release", NoReq, 201,
                                              release[p]))

\* Python's tuple >, on sequences of numbers
RECURSIVE TupleGreater(_, _)
TupleGreater(a, b) ==
    IF a = <<>> THEN FALSE
    ELSE IF b = <<>> THEN TRUE
    ELSE IF Head(a) # Head(b) THEN Head(a) > Head(b)
    ELSE TupleGreater(Tail(a), Tail(b))

\* _is_newer on versions that parse
_is_newer(latest, current) == TupleGreater(latest, current)

\* find_one({"is_latest": True}, sort=[("release_date", -1)]): the documents
\* the query may return
FindLatest(S) ==
    {d \in S : d.is_latest /\ \A e \in S : e.is_latest => e.release_date <= d.release_date}

\* get_latest_release; current_version <<>> is a request without one
GetLatestRelease(p, current_version) ==
    /\ Accept(p)
    /\ UNCHANGED <<store, indexed, nextId, now, releases, rindexed>>
    /\ IF FindLatest(releases) = {}
       THEN ReleaseRespond(p, HttpOk("get_latest_release", NoReq, 200,
                [available |-> FALSE,
                 version |-> IF current_version # <<>> THEN current_version
                             ELSE <<"unknown">>,
                 release_date |-> "None"]))
       ELSE \E doc \in FindLatest(releases) :
               ReleaseRespond(p, HttpOk("get_latest_release", NoReq, 200,
                [available |-> current_version # <<>>
                                  /\ _is_newer(ReleaseDocToModel(doc).version,
                                               current_version),
                 version |-> ReleaseDocToModel(doc).version,
                 release_date |-> ReleaseDocToModel(doc).release_date]))

\* the store operations of the release handlers
ReleaseSegments(op) ==
    CASE op = "create_release"     -> {"idle", "release_unmark", "release_insert"}
      [] op = "get_latest_release" -> {"idle"}

\* the store operation a release handler awaits raises because MongoDB
\* cannot be reached: the handler's `except Exception` answers 503
ReleaseStoreError(p, op) ==
    /\ pc[p] \in ReleaseSegments(op)
    /\ IF pc[p] = "idle" THEN Accept(p) ELSE served' = served
    /\ now' = IF pc[p] = "release_insert" THEN UtcNow(now) ELSE now
    /\ UNCHANGED <<store, indexed, nextId, releases, rindexed>>
    /\ ReleaseRespond(p, Http503(op))

ReleaseNext ==
    \/ \E p \in Procs, body \in ReleaseBodies : CreateRelease(p, body)
    \/ \E p \in Procs : ReleaseUnmark(p)
    \/ \E p \in Procs : ReleaseInsert(p)
    \/ \E p \in Procs, v \in Versions \cup {<<>>} : GetLatestRelease(p, v)
    \/ \E p \in Procs, op \in {"create_release", "get_latest_release"} :
          ReleaseStoreError(p, op)

ReleaseSpec == ReleaseInit /\ [][ReleaseNext]_vars

\* ================================================================= claims

\* the six fields of a stored document, as a response body carries them
Fields(d) ==
    [template_id |-> d.template_id, client_id |-> d.client_id, name |-> d.name,
     is_active |-> d.is_active, created_at |-> d.created_at,
     updated_at |-> d.updated_at]

\* the stored active documents of identity (t, c)
Active(t, c) ==
    {d \in store : d.template_id = t /\ d.client_id = c /\ d.is_active}

\* the stored documents of identity (t, c), active or not
Stored(t, c) == {d \in store : d.template_id = t /\ d.client_id = c}

\* the template_ids a client sees, and the document that stands for each
Visible(c) ==
    {t \in TemplateIds : Active(t, DEFAULT) # {} \/ Active(t, c) # {}}
Effective(t, c) ==
    IF Active(t, c) # {} THEN Active(t, c) ELSE Active(t, DEFAULT)

\* the step answers a request of kind op with something other than 503
Answers(op) == resp'.op = op /\ resp'.status # 503

\* the step is not the second store operation of a get_template
FirstLookup == \A p \in Procs : pc[p] = "get_default" => pc'[p] = "get_default"

\* C1: whenever get_template looks up (template_id, client_id) with
\* client_id other than "default" in a store that holds an active document
\* of that identity, it answers 200 with that document, not the default's,
\* whatever the default layer holds; it goes on to the default lookup only
\* when no such document is stored.
C1_OverridePrecedence ==
    [][ /\ (Answers("get") /\ FirstLookup /\ resp'.to.client_id # DEFAULT
              /\ Active(resp'.to.template_id, resp'.to.client_id) # {})
           => /\ resp'.status = 200
              /\ resp'.body.client_id = resp'.to.client_id
              /\ \E d \in Active(resp'.to.template_id, resp'.to.client_id) :
                    resp'.body = Fields(d)
        /\ \A p \in Procs :
              (pc[p] = "idle" /\ pc'[p] = "get_default")
              => /\ req'[p].client_id # DEFAULT
                 /\ Active(req'[p].template_id, req'[p].client_id) = {}
      ]_vars

\* an override was returned while an active default of the template is stored
C1_Witness ==
    /\ resp.op = "get" /\ resp.status = 200
    /\ resp.body.client_id # DEFAULT
    /\ Active(resp.body.template_id, DEFAULT) # {}
    /\ \E d \in Active(resp.body.template_id, resp.body.client_id) :
          resp.body = Fields(d)

\* C2: when get_template answers for (template_id, client_id) and the store
\* holds an active default of template_id and no active document of
\* (template_id, client_id) (none at all, or an inactive one), the answer is
\* 200 with the default document; and after a successful update_template
\* that stores an override with is_active = true, get_template for the
\* override's identity answers 200 with the override.
C2_Fallback ==
    [][ /\ (Answers("get")
              /\ Active(resp'.to.template_id, DEFAULT) # {}
              /\ (resp'.to.client_id = DEFAULT
                    \/ Active(resp'.to.template_id, resp'.to.client_id) = {}))
           => /\ resp'.status = 200
              /\ \E d \in Active(resp'.to.template_id, DEFAULT) :
                    resp'.body = Fields(d)
        /\ (resp'.op = "update" /\ resp'.status = 200
              /\ resp'.body.is_active /\ resp'.body.client_id # DEFAULT)
           => ResolveOne(store', resp'.body.template_id, resp'.body.client_id)
                 = {HttpOk("get",
                           To(resp'.body.template_id, resp'.body.client_id),
                           200, resp'.body)}
      ]_vars

\* the default was returned to a client whose override is stored inactive
C2_Witness ==
    /\ resp.op = "get" /\ resp.status = 200
    /\ resp.to.client_id # DEFAULT
    /\ resp.body.client_id = DEFAULT
    /\ \E d \in Stored(resp.to.template_id, resp.to.client_id) : ~d.is_active

\* a replace has switched an override of an active default on
C2_WitnessFlip ==
    /\ resp.op = "update" /\ resp.status = 200
    /\ resp.body.is_active /\ resp.body.client_id # DEFAULT
    /\ Active(resp.body.template_id, DEFAULT) # {}
    /\ resp.body.updated_at > resp.body.created_at + 1

\* C3: when get_template answers for (template_id, client_id) and the store
\* holds no active default of template_id and no active document of
\* (template_id, client_id), the answer is 404 naming template_id, also
\* when inactive documents of template_id are stored; and no 200 answer of
\* get_template carries an inactive document.
C3_Absence ==
    [][ Answers("get")
        => /\ (Active(resp'.to.template_id, DEFAULT) = {}
                 /\ Active(resp'.to.template_id, resp'.to.client_id) = {})
              => resp' = HttpError("get", resp'.to, 404, <<resp'.to.template_id>>)
           /\ resp'.status = 200 => resp'.body.is_active
      ]_vars

\* a 404 was answered while an inactive document of the template is stored
C3_Witness ==
    /\ resp.op = "get" /\ resp.status = 404
    /\ \E d \in store : d.template_id = resp.to.template_id /\ ~d.is_active

\* the list is answered from one state of the store: either by the first
\* query alone, or by the second with the default layer as the first read it
Quiescent ==
    \A p \in Procs :
       (pc[p] = "list_client" /\ pc'[p] = "idle")
       => {defaults[p][i] : i \in DOMAIN defaults[p]}
             = {d \in store : d.client_id = DEFAULT /\ d.is_active}

\* C4: a list_templates answered from one state of the store answers 200
\* with exactly one entry for every template_id that has an active default
\* or an active document of the client, that entry being the client's active
\* document when there is one and the default otherwise; it has no other
\* entry, no inactive document, and is in ascending order of name.
C4_ListResolved ==
    [][ (Answers("list") /\ Quiescent)
        => LET c == resp'.to.client_id
               b == resp'.body
           IN /\ resp'.status = 200
              /\ Len(b) = Cardinality(Visible(c))
              /\ \A t \in Visible(c) :
                    \E i \in DOMAIN b : \E d \in Effective(t, c) : b[i] = Fields(d)
              /\ \A i \in DOMAIN b :
                    b[i].is_active /\ b[i].template_id \in Visible(c)
              /\ \A i, j \in DOMAIN b :
                    i < j => ~StrLess(b[j].name, b[i].name)
      ]_vars

\* a list carries an override whose active default is stored as well
C4_Witness ==
    /\ resp.op = "list" /\ resp.status = 200
    /\ \E i \in DOMAIN resp.body :
          /\ resp.body[i].client_id # DEFAULT
          /\ Active(resp.body[i].template_id, DEFAULT) # {}
          /\ \E d \in Active(resp.body[i].template_id, resp.body[i].client_id) :
                resp.body[i] = Fields(d)

\* a list of two entries whose order of names is the reverse of the order
\* of insertion
C4_WitnessSorted ==
    /\ resp.op = "list" /\ resp.status = 200
    /\ Len(resp.body) = 2
    /\ StrLess(resp.body[1].name, resp.body[2].name)
    /\ resp.body[1].created_at > resp.body[2].created_at

\* C5: in every reachable state no two stored documents have the same
\* (template_id, client_id); documents of one template_id and different
\* client_id coexist.
C5_IdentityUnique == \A d, e \in store : SameKey(d, e) => d = e

\* two documents of one template_id and different client_id are stored
C5_Witness ==
    \E d, e \in store : d.template_id = e.template_id /\ d.client_id # e.client_id

\* C6: an insert_one of create_template whose (template_id, client_id) is
\* stored already, by an earlier or a concurrently running create_template,
\* is answered 409 and leaves the collection as it was; one whose identity
\* is free is answered 201 and adds exactly its document.
C6_InsertConflict ==
    [][ Answers("create")
        => IF Stored(resp'.to.template_id, resp'.to.client_id) # {}
           THEN /\ resp' = HttpError("create", resp'.to, 409,
                              <<resp'.to.template_id, resp'.to.client_id>>)
                /\ store' = store
           ELSE /\ resp'.status = 201
                /\ \E e \in store' :
                      /\ e \notin store
                      /\ store' = store \cup {e}
                      /\ e.template_id = resp'.to.template_id
                      /\ e.client_id = resp'.to.client_id
                      /\ e.name = resp'.body.name
                      /\ e.is_active = resp'.body.is_active
      ]_vars

\* the second of two inserts of one identity was answered 409 and the
\* winner's document is stored
C6_Witness ==
    /\ resp.op = "create" /\ resp.status = 409
    /\ Cardinality(Stored(resp.to.template_id, resp.to.client_id)) = 1

\* C7: an update_template addressed to a (template_id, client_id) of which
\* no document is stored is answered 404 naming both, and the collection is
\* left exactly as it was.
C7_ReplaceRequiresExistence ==
    [][ (Answers("update")
           /\ Stored(resp'.to.template_id, resp'.to.client_id) = {})
        => /\ resp' = HttpError("update", resp'.to, 404,
                         <<resp'.to.template_id, resp'.to.client_id>>)
           /\ store' = store
      ]_vars

\* a replace was answered 404 while other documents are stored
C7_Witness ==
    /\ resp.op = "update" /\ resp.status = 404
    /\ store # {}
    /\ Stored(resp.to.template_id, resp.to.client_id) = {}

\* no step changes the created_at of a stored document
CreatedAtKept ==
    \A d \in store : \A e \in store' : e.id = d.id => e.created_at = d.created_at

\* C8 as stated: every successful replace stores an updated_at strictly
\* greater than the one the document had.
C8_UpdatedAtIncreases ==
    [][ (resp'.op = "update" /\ resp'.status = 200)
        => \A d \in store : \A e \in store' :
              (e.id = d.id /\ e \notin store) => e.updated_at > d.updated_at
      ]_vars

\* C8: no step changes the created_at of a stored document, whatever
\* created_at a replace body carries; a successful replace stores as
\* updated_at the clock reading its handler took before calling the store,
\* not the body's, and answers with the document as stored.
C8_CreatedAtImmutable ==
    [][ /\ CreatedAtKept
        /\ (resp'.op = "update" /\ resp'.status = 200)
           => \E p \in Procs :
                 /\ pc[p] = "update_apply" /\ pc'[p] = "idle"
                 /\ \E d \in store : \E e \in store' :
                       /\ e.id = d.id
                       /\ store' = (store \ {d}) \cup {e}
                       /\ e.created_at = d.created_at
                       /\ e.updated_at = stamp[p]
                       /\ resp'.body = Fields(e)
      ]_vars

\* a replace has answered with the created_at of the insert, which is not
\* the body's, and an updated_at later than the insert's
C8_Witness ==
    /\ resp.op = "update" /\ resp.status = 200
    /\ resp.body.created_at \notin BodyTimes
    /\ resp.body.updated_at > resp.body.created_at + 1
    /\ \E d \in store : Fields(d) = resp.body

\* C9 as stated: the record a successful create_template returns equals,
\* field for field, the document it stored.
C9_InsertReturnsStored ==
    [][ (resp'.op = "create" /\ resp'.status = 201)
        => \A e \in store' \ store : resp'.body = Fields(e)
      ]_vars

Latest(S) == {d \in S : d.is_latest}

\* C11 as stated: at most one stored release has is_latest = true, and
\* after a create_release with is_latest = true is answered 201 the created
\* release is marked latest and every other stored release is not.
C11_SingleLatest ==
    [][ /\ Cardinality(Latest(releases')) <= 1
        /\ (resp'.op = "create_release" /\ resp'.status = 201
              /\ resp'.body.is_latest)
           => \A e \in releases' :
                 e.is_latest <=> e.version = resp'.body.version
      ]_vars

\* C12 as stated: after a successful update_template addressed to path
\* template_id T with a body of client_id C, the matched document still has
\* template_id T and client_id C, whatever template_id the body carries, so
\* the set of stored (template_id, client_id) pairs is as it was.
C12_ReplacePreservesIdentity ==
    [][ (resp'.op = "update" /\ resp'.status = 200)
        => /\ \A d \in store : \A e \in store' :
                 (e.id = d.id /\ SameKey(d, resp'.to)) => SameKey(e, resp'.to)
           /\ {To(e.template_id, e.client_id) : e \in store'}
                 = {To(d.template_id, d.client_id) : d \in store}
      ]_vars

\* C13 as stated: a create_release answered 409 has written no document of
\* the releases collection; the release marked latest before the call is
\* marked latest after it, also when the body carried is_latest = true.
C13_FailedCreateChangesNothing ==
    [][ (resp'.op = "create_release" /\ resp'.status = 409)
        => \A p \in Procs :
              (pc[p] = "release_insert" /\ pc'[p] = "idle")
              => /\ touched[p] = {}
                 /\ releases' = releases
      ]_vars

====
